---- MODULE Spec2Model ----
(***************************************************************************)
(* Channels of sage/coding/channel_constructions.py: the position sampler  *)
(* _random_error_position, the error-vector builder _random_error_vector,  *)
(* the count resolver _tuple_to_integer, and the two channels              *)
(* StaticErrorRateChannel and ErrorErasureChannel built on them.           *)
(*                                                                         *)
(* A vector of dimension n over GF(q), q prime, is a sequence of length n  *)
(* with entries in 0..q-1; Python's 0-based index i is entry i+1.  A space *)
(* VectorSpace(GF(q), n) is the pair <<n, q>>.  A count is <<e>> (a fixed  *)
(* integer) or <<lo, hi>> (a tuple, the only count with __iter__).         *)
(* Every randomised function is an operator giving the set of its possible *)
(* outcomes, one per sequence of random draws.                             *)
(***************************************************************************)
EXTENDS Integers, Sequences, FiniteSets, TLC

\* Largest dimension of a space, and largest n of a direct sampler call.
MaxN == 3
\* Largest field order; the fields are the GF(q), q prime, q <= MaxQ.
MaxQ == 3
\* Longest position list handed directly to _random_error_vector.
MaxPositions == 2

\* random() returns r / RandDen for some r in Rand: a real in [0, 1).  With
\* RandDen > MaxN every comparison random() < k/m, 0 < k, m <= MaxN, has
\* both of its outcomes whenever both are possible for a real draw.
RandDen == MaxN + 1
Rand == 0 .. (RandDen - 1)

IsPrime(q) == q >= 2 /\ \A d \in 2 .. (q - 1) : q % d # 0
Fields == {q \in 2 .. MaxQ : IsPrime(q)}

Range(s) == {s[j] : j \in DOMAIN s}

\* All vectors of dimension d over GF(q).
Vectors(d, q) == [1 .. d -> 0 .. (q - 1)]

VARIABLES chan, ctor, call, helper
vars == <<chan, ctor, call, helper>>

(***************************************************************************)
(* _random_error_position                                                  *)
(***************************************************************************)

\* As random_lt, the denominator n - i taken one too large.
random_lt_off_by_one(r, number_errors, rest, pyints) ==
    IF pyints
    THEN r < RandDen * (number_errors \div (rest + 1))
    ELSE r * (rest + 1) < number_errors * RandDen

\* The test `random() < number_errors/(n-i)` for the draw r / RandDen, where
\* rest = n - i > 0.  The quotient is an exact rational as soon as one operand
\* is a Sage Integer; with two Python ints (pyints) and no true division
\* imported it is the floor quotient.
random_lt(r, number_errors, rest, pyints) ==
    IF pyints
    THEN r < RandDen * (number_errors \div rest)
    ELSE r * rest < number_errors * RandDen

\* The while loop of _random_error_position from index i on: the set of
\* [ret, draws] it can end with, draws being the calls of random() made.
RECURSIVE error_position_loop(_, _, _, _, _)
error_position_loop(n, number_errors, i, error_position, pyints) ==
    IF i < n /\ number_errors > 0
    THEN UNION {
           IF b
           THEN UNION { error_position_loop(n, number_errors - 1, i + 1,
                                            appended, pyints)
                        : appended \in {Append(error_position, i)} }
           ELSE error_position_loop(n, number_errors, i + 1,
                                    error_position, pyints)
           : b \in {random_lt(r, number_errors, n - i, pyints) : r \in Rand} }
    ELSE {[ret |-> error_position, draws |-> i]}

\* As _random_error_position, the scan starting at index 1.
_random_error_position_from_1(n, number_errors, pyints) ==
    error_position_loop(n, number_errors, 1, <<>>, pyints)

_random_error_position(n, number_errors, pyints) ==
    error_position_loop(n, number_errors, 0, <<>>, pyints)

\* How many of the rest = n - i equal parts of [0, 1) hold the draws for
\* which `random() < number_errors/(n-i)` succeeds, random() being uniform:
\* number_errors of them (at most all) for the exact quotient; all or none
\* for the floor quotient, which is an integer.
pick_weight(number_errors, rest, pyints) ==
    IF pyints
    THEN IF number_errors \div rest >= 1 THEN rest ELSE 0
    ELSE IF number_errors >= rest THEN rest ELSE number_errors

\* The while loop of _random_error_position from index i on, with the
\* probability num / den of the draws made so far: the set of [ret, num, den]
\* of the lists it returns with probability num / den > 0.
RECURSIVE position_weights_loop(_, _, _, _, _, _, _)
position_weights_loop(n, number_errors, i, error_position, num, den, pyints) ==
    IF i < n /\ number_errors > 0
    THEN UNION {
           IF b
           THEN UNION { position_weights_loop(n, number_errors - 1, i + 1,
                                              t[1], t[2], t[3], pyints)
                        : t \in { << Append(error_position, i),
                                     num * pick_weight(number_errors, n - i,
                                                       pyints),
                                     den * (n - i) >> } }
           ELSE UNION { position_weights_loop(n, number_errors, i + 1,
                                              t[1], t[2], t[3], pyints)
                        : t \in { << error_position,
                                     num * ((n - i)
                                            - pick_weight(number_errors, n - i,
                                                          pyints)),
                                     den * (n - i) >> } }
           : b \in { c \in BOOLEAN :
                       IF c
                       THEN pick_weight(number_errors, n - i, pyints) > 0
                       ELSE pick_weight(number_errors, n - i, pyints) < n - i } }
    ELSE {[ret |-> error_position, num |-> num, den |-> den]}

\* The lists _random_error_position(n, number_errors) returns, each with its
\* probability.
position_weights(n, number_errors, pyints) ==
    position_weights_loop(n, number_errors, 0, <<>>, 1, 1, pyints)

(***************************************************************************)
(* _random_error_vector                                                    *)
(***************************************************************************)

\* As random_nonzero_element, the first element drawn kept (if for while).
random_element(q) == 0 .. (q - 1)

\* The values the loop `while vect[i].is_zero(): vect[i] = F.random_element()`
\* can leave in a zero entry: F.random_element() is any element of GF(q), and
\* the loop ends at the first one that is not zero.
random_nonzero_element(q) == {x \in 0 .. (q - 1) : x # 0}

\* As list_index, a negative index out of range too.
list_index_no_wrap(n, i) ==
    IF i >= n \/ i < 0 THEN 0 ELSE i + 1

\* The entry of a list of length n that Python's index i reads or writes:
\* 0 when i is out of range (IndexError), else the 1-based position.
list_index(n, i) ==
    IF i >= n \/ i < 0 - n THEN 0
    ELSE IF i < 0 THEN n + i + 1 ELSE i + 1

\* The for loop of _random_error_vector over the remaining positions.
RECURSIVE error_vector_loop(_, _, _, _)
error_vector_loop(n, q, vect, error_positions) ==
    IF error_positions = <<>>
    THEN {[raised |-> "", ret |-> vect]}
    ELSE LET j == list_index(n, Head(error_positions))
         IN  IF j = 0
             THEN {[raised |-> "IndexError", ret |-> <<>>]}
             ELSE IF vect[j] # 0
             THEN error_vector_loop(n, q, vect, Tail(error_positions))
             ELSE UNION { error_vector_loop(n, q, filled,
                                            Tail(error_positions))
                          : filled \in {[vect EXCEPT ![j] = x]
                                        : x \in random_nonzero_element(q)} }

_random_error_vector(n, q, error_positions) ==
    error_vector_loop(n, q, [j \in 1 .. n |-> 0], error_positions)

(***************************************************************************)
(* _tuple_to_integer                                                       *)
(***************************************************************************)

has_iter(value) == Len(value) = 2

\* [val, draws]: the integer itself, or randint(value[0], value[1]).
_tuple_to_integer(value) ==
    IF ~has_iter(value)
    THEN {[val |-> value[1], draws |-> 0]}
    ELSE {[val |-> x, draws |-> 1] : x \in value[1] .. value[2]}

(***************************************************************************)
(* Records of the state                                                    *)
(***************************************************************************)

dimension(space) == space[1]
base_ring(space) == space[2]

NoVector == [q |-> 0, v |-> <<>>]

\* No channel object exists.
NoChannel ==
    [kind |-> "none", _input_space |-> <<0, 0>>, _output_space |-> <<>>,
     _number_errors |-> <<>>, _number_erasures |-> <<>>, pyints |-> FALSE]

\* No constructor has run.
NoCtor ==
    [cls |-> "none", space |-> <<0, 0>>, number_errors |-> <<>>,
     number_erasures |-> <<>>, pyints |-> FALSE, raised |-> ""]

\* No call of a channel is under way.  A call leaves in `call`: entry, the
\* method the caller called; message, the caller's vector before the call and
\* message_after, the same object after it; raised, the exception ("" when
\* the call returned); ret (and erasure_vector), the value returned; the
\* locals of transmit_unsafe; prandom_calls, the calls of random() and
\* randint() made; unsafe, whether transmit_unsafe ran.
NoCall ==
    [entry |-> "none", message |-> NoVector, message_after |-> NoVector,
     raised |-> "", ret |-> <<>>, erasure_vector |-> <<>>,
     number_errors |-> 0, number_erasures |-> 0,
     erroneous_positions |-> <<>>, error_split |-> <<>>,
     error_positions |-> <<>>, erasure_positions |-> <<>>,
     prandom_calls |-> 0, unsafe |-> FALSE]

\* No helper has been called directly.  A direct call leaves in `helper`: fn,
\* the helper; its arguments n, k (number_errors), q (the field),
\* positions, pyints; raised and ret as above.
NoHelper ==
    [fn |-> "none", n |-> 0, k |-> 0, q |-> 0, positions |-> <<>>,
     pyints |-> FALSE, raised |-> "", ret |-> <<>>]

vector_add(a, b, q) == [j \in 1 .. Len(a) |-> (a[j] + b[j]) % q]

(***************************************************************************)
(* StaticErrorRateChannel                                                  *)
(***************************************************************************)

\* As StaticErrorRateChannel_init, a tuple tested on its first entry.
StaticErrorRateChannel_init_lower_bound(space, number_errors) ==
    IF number_errors[1] > dimension(space)
    THEN NoChannel
    ELSE [kind |-> "static", _input_space |-> space,
          _output_space |-> <<space>>, _number_errors |-> number_errors,
          _number_erasures |-> <<>>, pyints |-> FALSE]

\* The channel StaticErrorRateChannel(space, number_errors) yields, or
\* NoChannel when __init__ raises ValueError.
StaticErrorRateChannel_init(space, number_errors) ==
    LET no_err == IF ~has_iter(number_errors) THEN number_errors[1]
                  ELSE number_errors[2]
    IN  IF no_err > dimension(space)
        THEN NoChannel
        ELSE [kind |-> "static", _input_space |-> space,
              _output_space |-> <<space>>, _number_errors |-> number_errors,
              _number_erasures |-> <<>>, pyints |-> FALSE]

\* self.transmit_unsafe(message), self a StaticErrorRateChannel, entered
\* through the method `entry`: one step for each outcome of the draws.  n is
\* a Sage Integer, so the sampler's quotient is exact.
StaticErrorRateChannel_transmit_unsafe(self, message, entry) ==
    LET V == self._input_space
        n == dimension(V)
        base == [NoCall EXCEPT !.entry = entry, !.unsafe = TRUE,
                   !.message = message, !.message_after = message]
    IN  \E ne \in _tuple_to_integer(self._number_errors) :
        \E ep \in _random_error_position(n, ne.val, FALSE) :
        \E ev \in _random_error_vector(n, base_ring(V), ep.ret) :
          call' = IF ev.raised # ""
                  THEN [base EXCEPT !.raised = ev.raised,
                                    !.prandom_calls = ne.draws + ep.draws]
                  ELSE [base EXCEPT
                          !.number_errors = ne.val,
                          !.error_positions = ep.ret,
                          !.prandom_calls = ne.draws + ep.draws,
                          !.ret = vector_add(message.v, ev.ret, base_ring(V))]

(***************************************************************************)
(* ErrorErasureChannel                                                     *)
(***************************************************************************)

\* As ErrorErasureChannel_init, the erasures left out of the test.
ErrorErasureChannel_init_errors_only(space, number_errors, number_erasures, pyints) ==
    LET no_err == IF ~has_iter(number_errors) THEN number_errors[1]
                  ELSE number_errors[2]
    IN  IF no_err > dimension(space)
        THEN NoChannel
        ELSE [kind |-> "ee", _input_space |-> space,
              _output_space |-> <<space, <<dimension(space), 2>> >>,
              _number_errors |-> number_errors,
              _number_erasures |-> number_erasures, pyints |-> pyints]

\* The channel ErrorErasureChannel(space, number_errors, number_erasures)
\* yields, or NoChannel when __init__ raises ValueError.  pyints: the counts
\* were given as Python ints, not Sage Integers.
ErrorErasureChannel_init(space, number_errors, number_erasures, pyints) ==
    LET no_err == IF ~has_iter(number_errors) THEN number_errors[1]
                  ELSE number_errors[2]
        no_era == IF ~has_iter(number_erasures) THEN number_erasures[1]
                  ELSE number_erasures[2]
    IN  IF no_err + no_era > dimension(space)
        THEN NoChannel
        ELSE [kind |-> "ee", _input_space |-> space,
              _output_space |-> <<space, <<dimension(space), 2>> >>,
              _number_errors |-> number_errors,
              _number_erasures |-> number_erasures, pyints |-> pyints]

\* [ erroneous_positions[i] for i in range(i, m) if (i in error_split) = keep ]
\* as [raised, ret]; the index is read only for the i that pass the test.
RECURSIVE split_positions(_, _, _, _, _)
split_positions(erroneous_positions, i, m, error_split, keep) ==
    IF i >= m
    THEN [raised |-> "", ret |-> <<>>]
    ELSE LET rest == split_positions(erroneous_positions, i + 1, m,
                                     error_split, keep)
         IN  IF (i \in Range(error_split)) # keep
             THEN rest
             ELSE IF list_index(Len(erroneous_positions), i) = 0
             THEN [raised |-> "IndexError", ret |-> <<>>]
             ELSE IF rest.raised # ""
             THEN rest
             ELSE [raised |-> "",
                   ret |-> <<erroneous_positions[i + 1]>> \o rest.ret]

\* As split, the test `i not in error_split` of the erasure list dropped.
split_erasures_unfiltered(erroneous_positions, m, error_split) ==
    [error_positions |->
         split_positions(erroneous_positions, 0, m, error_split, TRUE),
     erasure_positions |->
         split_positions(erroneous_positions, 0, m, <<>>, FALSE)]

\* Lines 615-618: the two lists cut out of erroneous_positions, m being
\* number_errors + number_erasures.
split(erroneous_positions, m, error_split) ==
    [error_positions |->
         split_positions(erroneous_positions, 0, m, error_split, TRUE),
     erasure_positions |->
         split_positions(erroneous_positions, 0, m, error_split, FALSE)]

\* As message_plus_error_vector, the sum written into the vector itself
\* (message += error_vector).
message_iadd_error_vector(heap, message, error_vector, q) ==
    [heap |-> [heap EXCEPT
                 ![message] = vector_add(heap[message], error_vector, q)],
     message |-> message]

\* `message = message + error_vector`: the sum is a new vector and the local
\* name message is bound to it.  heap holds the caller's vector (arg) and the
\* new one (new); the result is the heap and the object message names.
message_plus_error_vector(heap, message, error_vector, q) ==
    [heap |-> [heap EXCEPT !.new = vector_add(heap[message], error_vector, q)],
     message |-> "new"]

\* As erase, nothing written.
erase_nothing(heap, message, erasure_positions) == heap

\* As erase, the loop left after its first round.
erase_first_only(heap, message, erasure_positions) ==
    IF erasure_positions = <<>>
    THEN heap
    ELSE [heap EXCEPT ![message][Head(erasure_positions) + 1] = 0]

\* `for i in erasure_positions: message[i] = 0` on the object message names.
RECURSIVE erase(_, _, _)
erase(heap, message, erasure_positions) ==
    IF erasure_positions = <<>>
    THEN heap
    ELSE CHOOSE erased \in
           { erase(written, message, Tail(erasure_positions))
             : written \in
                 {[heap EXCEPT ![message][Head(erasure_positions) + 1] = 0]} }
           : TRUE

\* Lines 623-627 of transmit_unsafe: the vector returned and the caller's
\* vector after the call.
corrupt(message, q, error_vector, erasure_positions) ==
    LET sum == message_plus_error_vector([arg |-> message.v, new |-> <<>>],
                                         "arg", error_vector, q)
        heap == erase(sum.heap, sum.message, erasure_positions)
    IN  [ret |-> heap[sum.message],
         message_after |-> [message EXCEPT !.v = heap.arg]]

\* self.transmit_unsafe(message), self an ErrorErasureChannel, entered through
\* the method `entry`: one step for each outcome of the draws.  The split's
\* quotient number_errors/(n-i) is a floor quotient when both counts are
\* Python ints: given so, or returned by randint.
ErrorErasureChannel_transmit_unsafe(self, message, entry) ==
    LET V == self._input_space
        n == dimension(V)
        split_ints == /\ (has_iter(self._number_errors) \/ self.pyints)
                      /\ (has_iter(self._number_erasures) \/ self.pyints)
        base == [NoCall EXCEPT !.entry = entry, !.unsafe = TRUE,
                   !.message = message, !.message_after = message]
    IN  \E ne \in _tuple_to_integer(self._number_errors) :
        \E nr \in _tuple_to_integer(self._number_erasures) :
        \E ep \in _random_error_position(n, ne.val + nr.val, FALSE) :
        \E sp \in _random_error_position(ne.val + nr.val, ne.val, split_ints) :
          LET number_errors == ne.val
              number_erasures == nr.val
              erroneous_positions == ep.ret
              error_split == sp.ret
              lists == split(erroneous_positions,
                             number_errors + number_erasures, error_split)
              error_positions == lists.error_positions
              erasure_positions == lists.erasure_positions
              draws == ne.draws + nr.draws + ep.draws + sp.draws
          IN  IF error_positions.raised # "" \/ erasure_positions.raised # ""
              THEN call' = [base EXCEPT !.raised = "IndexError",
                                        !.prandom_calls = draws]
              ELSE
                \E ev \in _random_error_vector(n, base_ring(V),
                                               error_positions.ret) :
                \E era \in _random_error_vector(n, 2, erasure_positions.ret) :
                  call' =
                    IF ev.raised # "" \/ era.raised # ""
                    THEN [base EXCEPT !.raised = "IndexError",
                                      !.prandom_calls = draws]
                    ELSE LET c == corrupt(message, base_ring(V), ev.ret,
                                          erasure_positions.ret)
                         IN  [base EXCEPT
                                !.message_after = c.message_after,
                                !.ret = c.ret,
                                !.erasure_vector = era.ret,
                                !.number_errors = number_errors,
                                !.number_erasures = number_erasures,
                                !.erroneous_positions = erroneous_positions,
                                !.error_split = error_split,
                                !.error_positions = error_positions.ret,
                                !.erasure_positions = erasure_positions.ret,
                                !.prandom_calls = draws]

(***************************************************************************)
(* AbstractChannel                                                         *)
(***************************************************************************)

\* `message in self.input_space()` for a message that is a vector over
\* GF(message.q): same dimension and same field.
in_input_space(message, self) ==
    /\ Len(message.v) = dimension(self._input_space)
    /\ message.q = base_ring(self._input_space)

\* self.transmit_unsafe(message), dispatched on the class of self.
transmit_unsafe(self, message, entry) ==
    IF self.kind = "static"
    THEN StaticErrorRateChannel_transmit_unsafe(self, message, entry)
    ELSE ErrorErasureChannel_transmit_unsafe(self, message, entry)

\* As transmit, the message tested for its dimension only.
transmit_dimension_only(self, message) ==
    IF Len(message.v) = dimension(self._input_space)
    THEN transmit_unsafe(self, message, "transmit")
    ELSE call' = [NoCall EXCEPT !.entry = "transmit", !.message = message,
                    !.message_after = message, !.raised = "TypeError"]

\* self.transmit(message).
transmit(self, message) ==
    IF in_input_space(message, self)
    THEN transmit_unsafe(self, message, "transmit")
    ELSE call' = [NoCall EXCEPT !.entry = "transmit", !.message = message,
                    !.message_after = message, !.raised = "TypeError"]

(***************************************************************************)
(* The channel's life: one construction, then any number of calls          *)
(***************************************************************************)

Spaces == (0 .. MaxN) \X Fields

\* The counts a caller configures: a non-negative integer or a tuple
\* (lo, hi) of them with lo <= hi; a count may exceed the dimension.
Counts ==
    {<<e>> : e \in 0 .. (MaxN + 1)} \cup
    {<<lo, hi>> : <<lo, hi>> \in
        {c \in (0 .. (MaxN + 1)) \X (0 .. (MaxN + 1)) : c[1] <= c[2]}}

\* The vectors a caller holds: over any field, of any dimension.
Messages ==
    UNION { {[q |-> q, v |-> v] : v \in Vectors(d, q)}
            : <<d, q>> \in (0 .. MaxN) \X Fields }

Init ==
    chan = NoChannel /\ ctor = NoCtor /\ call = NoCall /\ helper = NoHelper

\* Chan = StaticErrorRateChannel(space, number_errors)
NewStaticErrorRateChannel ==
    /\ ctor = NoCtor
    /\ \E space \in Spaces, number_errors \in Counts :
         /\ chan' = StaticErrorRateChannel_init(space, number_errors)
         /\ ctor' = [cls |-> "StaticErrorRateChannel", space |-> space,
                     number_errors |-> number_errors,
                     number_erasures |-> <<>>, pyints |-> FALSE,
                     raised |-> IF chan'.kind = "none" THEN "ValueError"
                                ELSE ""]
    /\ UNCHANGED <<call, helper>>

\* Chan = ErrorErasureChannel(space, number_errors, number_erasures)
NewErrorErasureChannel ==
    /\ ctor = NoCtor
    /\ \E space \in Spaces, number_errors \in Counts,
          number_erasures \in Counts, pyints \in BOOLEAN :
         /\ chan' = ErrorErasureChannel_init(space, number_errors,
                                             number_erasures, pyints)
         /\ ctor' = [cls |-> "ErrorErasureChannel", space |-> space,
                     number_errors |-> number_errors,
                     number_erasures |-> number_erasures, pyints |-> pyints,
                     raised |-> IF chan'.kind = "none" THEN "ValueError"
                                ELSE ""]
    /\ UNCHANGED <<call, helper>>

\* Chan.transmit(message)
Transmit ==
    /\ chan # NoChannel
    /\ call = NoCall
    /\ \E message \in Messages : transmit(chan, message)
    /\ UNCHANGED <<chan, ctor, helper>>

\* Chan.transmit_unsafe(message), message trusted to be in the input space
TransmitUnsafe ==
    /\ chan # NoChannel
    /\ call = NoCall
    /\ \E message \in Messages :
         /\ in_input_space(message, chan)
         /\ transmit_unsafe(chan, message, "transmit_unsafe")
    /\ UNCHANGED <<chan, ctor, helper>>

\* The call is over: its result, or its exception, is with the caller.
Return ==
    /\ call # NoCall
    /\ call' = NoCall
    /\ UNCHANGED <<chan, ctor, helper>>

Next ==
    \/ NewStaticErrorRateChannel
    \/ NewErrorErasureChannel
    \/ Transmit
    \/ TransmitUnsafe
    \/ Return

Spec == Init /\ [][Next]_vars

(***************************************************************************)
(* The helpers called directly, once, on arguments of any kind             *)
(***************************************************************************)

\* The positions a caller may hand to _random_error_vector: any integers.
PositionLists ==
    UNION { [1 .. len -> (0 - (MaxN + 1)) .. MaxN] : len \in 0 .. MaxPositions }

\* _random_error_position(n, k), the arguments Sage Integers or Python ints
CallRandomErrorPosition ==
    /\ helper = NoHelper
    /\ \E n \in 0 .. MaxN, k \in (0 - 1) .. (MaxN + 1), pyints \in BOOLEAN :
       \E o \in _random_error_position(n, k, pyints) :
         helper' = [NoHelper EXCEPT !.fn = "_random_error_position",
                      !.n = n, !.k = k, !.pyints = pyints, !.ret = o.ret]
    /\ UNCHANGED <<chan, ctor, call>>

\* _random_error_vector(n, GF(q), positions)
CallRandomErrorVector ==
    /\ helper = NoHelper
    /\ \E n \in 0 .. MaxN, q \in Fields, positions \in PositionLists :
       \E o \in _random_error_vector(n, q, positions) :
         helper' = [NoHelper EXCEPT !.fn = "_random_error_vector",
                      !.n = n, !.q = q, !.positions = positions,
                      !.raised = o.raised, !.ret = o.ret]
    /\ UNCHANGED <<chan, ctor, call>>

NextHelpers ==
    \/ CallRandomErrorPosition
    \/ CallRandomErrorVector

SpecHelpers == Init /\ [][NextHelpers]_vars

(***************************************************************************)
(* Properties of the helpers, under SpecHelpers                            *)
(***************************************************************************)

IsSampled == helper.fn = "_random_error_position"
IsBuilt == helper.fn = "_random_error_vector"

Distinct(s) == \A a, b \in DOMAIN s : a # b => s[a] # s[b]

\* C1: for 0 <= k <= n, whatever the draws, _random_error_position(n, k)
\* returns a list of exactly k distinct positions, each in [0, n).
C1_ExactlyKDistinctPositions ==
    (IsSampled /\ 0 <= helper.k /\ helper.k <= helper.n) =>
        /\ helper.raised = ""
        /\ Len(helper.ret) = helper.k
        /\ Distinct(helper.ret)
        /\ \A j \in DOMAIN helper.ret :
             0 <= helper.ret[j] /\ helper.ret[j] < helper.n

\* A call with 0 < k < n that skipped index 0 and index 1 is not forced.
C1_Witness ==
    /\ IsSampled /\ helper.n = 3 /\ helper.k = 2 /\ ~helper.pyints
    /\ helper.ret = <<0, 2>>

\* The subsets of [0, n) of size k.
Subsets(n, k) == {S \in SUBSET (0 .. (n - 1)) : Cardinality(S) = k}

\* The lists of positive probability are the lists some draws lead to.
SamplerWeightsAgreeWithDraws ==
    IsSampled =>
        {w.ret : w \in position_weights(helper.n, helper.k, helper.pyints)}
          = {o.ret : o \in _random_error_position(helper.n, helper.k,
                                                  helper.pyints)}

\* C11: for 0 <= k <= n, _random_error_position(n, k) returns every subset
\* of [0, n) of size k with the same probability, 1 / C(n, k); so every such
\* subset is a list it can return.
C11_EverySubsetEquallyLikely ==
    (IsSampled /\ 0 <= helper.k /\ helper.k <= helper.n) =>
        \A S \in Subsets(helper.n, helper.k) :
            \E w \in position_weights(helper.n, helper.k, helper.pyints) :
                /\ Range(w.ret) = S
                /\ w.num * Cardinality(Subsets(helper.n, helper.k)) = w.den

\* C11 holds of the calls whose quotient number_errors/(n-i) is exact, one
\* of n and number_errors being a Sage Integer.
C11_EquallyLikelyWithExactQuotient ==
    (IsSampled /\ 0 <= helper.k /\ helper.k <= helper.n /\ ~helper.pyints) =>
        \A S \in Subsets(helper.n, helper.k) :
            \E w \in position_weights(helper.n, helper.k, FALSE) :
                /\ Range(w.ret) = S
                /\ w.num * Cardinality(Subsets(helper.n, helper.k)) = w.den

\* With two Python ints only the last k positions are ever returned.
C11_LastPositionsWithFloorQuotient ==
    (IsSampled /\ 0 <= helper.k /\ helper.k <= helper.n /\ helper.pyints) =>
        helper.ret = [j \in 1 .. helper.k |-> helper.n - helper.k + j - 1]

n_of_chan == chan._input_space[1]
q_of_chan == chan._input_space[2]

\* transmit_unsafe ran on a StaticErrorRateChannel / an ErrorErasureChannel.
StaticRan == chan.kind = "static" /\ call.unsafe
ErrorErasureRan == chan.kind = "ee" /\ call.unsafe

\* The coordinates (1-based) where the vector returned is not the message.
Differing == {i \in 1 .. n_of_chan : call.ret[i] # call.message.v[i]}
\* The coordinates (1-based) the erasure vector flags.
Flagged == {i \in 1 .. n_of_chan : call.erasure_vector[i] = 1}

Fixed(count) == Len(count) = 1
UpperBound(count) == count[Len(count)]

\* C2: a StaticErrorRateChannel returns a vector that differs from the
\* message at exactly e coordinates when its count is the integer e, and at
\* between lo and hi coordinates when its count is the tuple (lo, hi).
C2_StaticWeight ==
    StaticRan =>
        /\ call.raised = ""
        /\ Len(call.ret) = n_of_chan
        /\ IF Fixed(chan._number_errors)
           THEN Cardinality(Differing) = chan._number_errors[1]
           ELSE /\ chan._number_errors[1] <= Cardinality(Differing)
                /\ Cardinality(Differing) <= chan._number_errors[2]

\* A count drawn strictly inside its tuple, on a message that is not zero.
C2_Witness ==
    /\ StaticRan /\ chan._input_space = <<3, 3>>
    /\ chan._number_errors = <<1, 3>>
    /\ call.message.v = <<1, 2, 0>>
    /\ Cardinality(Differing) = 2

\* C3: in every ErrorErasureChannel.transmit_unsafe the error positions and
\* the erasure positions are disjoint, e and r in number, and make up the
\* e + r distinct positions of [0, n) drawn together; the vector returned
\* differs from the message at every error position and equals it wherever
\* there is neither an error nor an erasure; r coordinates are flagged erased.
C3_DisjointSplit ==
    ErrorErasureRan =>
        LET e == call.number_errors
            r == call.number_erasures
            E == Range(call.error_positions)
            R == Range(call.erasure_positions)
            A == Range(call.erroneous_positions)
        IN  /\ call.raised = ""
            /\ e >= 0 /\ r >= 0 /\ e + r <= n_of_chan
            /\ Len(call.erroneous_positions) = e + r
            /\ Distinct(call.erroneous_positions)
            /\ A \subseteq 0 .. (n_of_chan - 1)
            /\ Len(call.error_positions) = e /\ Cardinality(E) = e
            /\ Len(call.erasure_positions) = r /\ Cardinality(R) = r
            /\ E \cap R = {}
            /\ E \cup R = A
            /\ \A p \in E : call.ret[p + 1] # call.message.v[p + 1]
            /\ \A p \in (0 .. (n_of_chan - 1)) \ A :
                 call.ret[p + 1] = call.message.v[p + 1]
            /\ Cardinality(Flagged) = r

\* One error, one erasure, one position untouched, the error after the erasure.
C3_Witness ==
    /\ ErrorErasureRan /\ n_of_chan = 3
    /\ call.number_errors = 1 /\ call.number_erasures = 1
    /\ call.erroneous_positions = <<0, 2>>
    /\ call.error_positions = <<2>> /\ call.erasure_positions = <<0>>

\* C4: an ErrorErasureChannel with integer counts (e, r) returns two vectors
\* of dimension n; the second has exactly r entries 1, at the erasure
\* positions and nowhere else, and the first is zero wherever the second is 1.
C4_ErasedAreZeroAndFlagged ==
    (ErrorErasureRan /\ Fixed(chan._number_errors)
                     /\ Fixed(chan._number_erasures)) =>
        /\ call.raised = ""
        /\ Len(call.ret) = n_of_chan
        /\ Len(call.erasure_vector) = n_of_chan
        /\ \A i \in 1 .. n_of_chan : call.erasure_vector[i] \in {0, 1}
        /\ Cardinality(Flagged) = chan._number_erasures[1]
        /\ Flagged = {p + 1 : p \in Range(call.erasure_positions)}
        /\ \A i \in Flagged : call.ret[i] = 0

\* Two erasures, both of coordinates where the message is not zero.
C4_Witness ==
    /\ ErrorErasureRan /\ chan._input_space = <<3, 3>>
    /\ chan._number_errors = <<1>> /\ chan._number_erasures = <<2>>
    /\ call.message.v = <<1, 2, 2>>
    /\ call.erasure_vector = <<1, 0, 1>> /\ call.ret[1] = 0 /\ call.ret[3] = 0

\* C5 as stated: with integer counts, for any message, no flagged coordinate
\* is one where the vector returned differs from the message.
C5_FlaggedNeverDiffer ==
    (ErrorErasureRan /\ Fixed(chan._number_errors)
                     /\ Fixed(chan._number_erasures)) =>
        Flagged \cap Differing = {}

\* C5 amended: with integer counts, no flagged coordinate is an error
\* position, and at a flagged coordinate the vector returned differs from the
\* message exactly when the message is not zero there; so the flagged
\* coordinates are disjoint from the differing ones when the message is zero
\* on them.
C5_FlaggedDifferIffMessageNonzero ==
    (ErrorErasureRan /\ Fixed(chan._number_errors)
                     /\ Fixed(chan._number_erasures)) =>
        /\ call.raised = ""
        /\ Cardinality(Flagged) = chan._number_erasures[1]
        /\ \A i \in Flagged :
             /\ (i - 1) \notin Range(call.error_positions)
             /\ (i \in Differing) <=> (call.message.v[i] # 0)
        /\ (\A i \in Flagged : call.message.v[i] = 0) =>
             Flagged \cap Differing = {}

\* An erased coordinate where the message is not zero.
C5_Witness ==
    /\ ErrorErasureRan /\ chan._input_space = <<3, 2>>
    /\ chan._number_errors = <<1>> /\ chan._number_erasures = <<1>>
    /\ call.message.v = <<1, 1, 1>>
    /\ call.erasure_vector = <<0, 1, 0>> /\ 2 \in Differing

\* C6: every call of transmit or transmit_unsafe leaves the caller's vector
\* as it was, and the channel with the spaces and counts it was built with.
C6_CallsChangeNothing ==
    [][ /\ call'.entry # "none" => call'.message_after = call'.message
        /\ chan # NoChannel => chan' = chan ]_vars

\* An ErrorErasureChannel has written a zero over a non-zero coordinate of
\* the vector it returns.
C6_Witness ==
    /\ ErrorErasureRan /\ call.erasure_positions = <<1>>
    /\ call.message.v = <<0, 2, 0>> /\ call.ret[2] = 0
    /\ call.message_after = call.message

\* C7: StaticErrorRateChannel(space, count) raises, and yields no channel,
\* when the count (the upper bound of a tuple) exceeds the dimension;
\* ErrorErasureChannel(space, errors, erasures) does when the two upper bounds
\* together exceed it; otherwise the channel is built and stores the space
\* and the counts as given.
C7_ConstructionChecksUpperBounds ==
    ctor.cls # "none" =>
        LET exceeds ==
              IF ctor.cls = "StaticErrorRateChannel"
              THEN UpperBound(ctor.number_errors) > ctor.space[1]
              ELSE UpperBound(ctor.number_errors)
                     + UpperBound(ctor.number_erasures) > ctor.space[1]
        IN  /\ exceeds => ctor.raised = "ValueError" /\ chan = NoChannel
            /\ ~exceeds =>
                 /\ ctor.raised = ""
                 /\ chan.kind = IF ctor.cls = "StaticErrorRateChannel"
                                THEN "static" ELSE "ee"
                 /\ chan._input_space = ctor.space
                 /\ chan._number_errors = ctor.number_errors
                 /\ chan._number_erasures = ctor.number_erasures

\* Two tuples, each within the dimension, whose upper bounds are not together.
C7_Witness ==
    /\ ctor.cls = "ErrorErasureChannel" /\ ctor.space = <<3, 3>>
    /\ ctor.number_errors = <<0, 2>> /\ ctor.number_erasures = <<1, 2>>
    /\ ctor.raised = "ValueError" /\ chan = NoChannel

\* C8: transmit(message) raises TypeError, without running transmit_unsafe
\* and without a random draw, when the message is not in the input space
\* (its dimension or its field is another); when it is, transmit_unsafe runs
\* and its result is the result of transmit.
C8_TransmitChecksMembership ==
    call.entry = "transmit" =>
        LET member == /\ Len(call.message.v) = n_of_chan
                      /\ call.message.q = q_of_chan
        IN  /\ ~member =>
                 /\ call.raised = "TypeError"
                 /\ ~call.unsafe
                 /\ call.prandom_calls = 0
                 /\ call.ret = <<>> /\ call.erasure_vector = <<>>
            /\ member =>
                 /\ call.unsafe
                 /\ call.raised = ""
                 /\ Len(call.ret) = n_of_chan

\* A vector of the right dimension over another field is turned away.
C8_Witness ==
    /\ call.entry = "transmit" /\ chan._input_space = <<2, 3>>
    /\ call.message = [q |-> 2, v |-> <<1, 0>>]
    /\ call.raised = "TypeError" /\ ~call.unsafe

\* A list of distinct positions, each in [0, n).
ValidPositions(positions, n) ==
    /\ Distinct(positions)
    /\ \A j \in DOMAIN positions : 0 <= positions[j] /\ positions[j] < n

\* C12: in a channel built with non-negative counts, transmit_unsafe calls
\* _random_error_position only with 0 <= k <= n (an ErrorErasureChannel for
\* e + r out of n and for e out of e + r) and _random_error_vector only with
\* distinct positions in [0, n), whatever the counts drawn; no call of a
\* helper fails.
C12_HelpersGetValidArguments ==
    call.unsafe =>
        LET e == call.number_errors
            r == call.number_erasures
        IN  /\ call.raised = ""
            /\ chan.kind = "static" =>
                 /\ 0 <= e /\ e <= n_of_chan
                 /\ ValidPositions(call.error_positions, n_of_chan)
            /\ chan.kind = "ee" =>
                 /\ 0 <= e + r /\ e + r <= n_of_chan
                 /\ 0 <= e /\ e <= e + r
                 /\ ValidPositions(call.error_positions, n_of_chan)
                 /\ ValidPositions(call.erasure_positions, n_of_chan)

\* Counts drawn from tuples that together fill the whole dimension.
C12_Witness ==
    /\ ErrorErasureRan /\ n_of_chan = 3
    /\ chan._number_errors = <<0, 2>> /\ chan._number_erasures = <<0, 1>>
    /\ call.number_errors = 2 /\ call.number_erasures = 1
    /\ call.error_positions = <<1, 2>> /\ call.erasure_positions = <<0>>

====
